---------------------------- MODULE Spec2Model ----------------------------
(***************************************************************************)
(* ResellerOS: the rate-limited, monitored eBay API client.                *)
(*                                                                         *)
(*   RateLimiter       src/src/integrations/ebay/rate_limiter.py  13-84    *)
(*   RequestTracker    src/src/integrations/ebay/rate_limiter.py  87-147   *)
(*   EbayInventoryAPI  src/src/integrations/ebay/inventory_api.py 16-130   *)
(*   EbayAuth          src/src/integrations/ebay/auth.py          333-501  *)
(*   SecureStorage     src/src/core/security.py                   88-158   *)
(*   routes            src/src/api/routes/ebay.py                 16-181   *)
(*                                                                         *)
(* Time is the reading of time.time(), counted in ticks of                 *)
(* 1/TicksPerSecond s and never decreasing.  The token balance is a float  *)
(* in the code; here it is kept exactly, in units of 1/TicksPerSecond      *)
(* token, so that `elapsed * calls_per_second` is a whole number of units  *)
(* for every elapsed number of ticks.  Float rounding is not modelled.     *)
(***************************************************************************)
EXTENDS Integers, Sequences, FiniteSets, TLC

\* ------------------------------------------------------------ constants
\* Resolution of the clock: ticks per second (one tick = 0.05 s).
TicksPerSecond == 20
\* RateLimiter(calls_per_second=5, burst=10), as the client constructs it.
calls_per_second == 5
burst == 10
\* One token in balance units.
Unit == TicksPerSecond
\* time.sleep(0.1) in ticks.
SleepTicks == TicksPerSecond \div 10
\* acquire(..., timeout=10.0): the default, which the client relies on.
default_timeout == 10
\* RequestTracker(window_size=3600): the default, which the client relies on.
window_size == 3600

\* ------------------------------------------------------------ bounds
\* Last tick the clock advances to one tick at a time.
MaxTime == 4
\* The timeout, in ticks, a direct acquire(tokens, timeout) is given.
MaxTimeout == 3
\* Most tokens a direct acquire asks for, short of the over-capacity request.
MaxCost == 1

\* Most calls the client thread makes in one behaviour.
MaxCalls == 1

\* Most records the tracker is given directly in one behaviour.
MaxRecords == 3
\* Most whole windows the tracker's clock is moved forward in one step each.
MaxWindows == 1
\* Last tick past a whole number of windows the tracker's clock reaches.
MaxSpan == 1

\* Last tick at which a thread begins a call when the locks are steps of
\* their own.
MaxStart == 0
\* Most records made in one behaviour when the locks are steps of their own.
MaxLockedRecords == 1

Callers == {"c1", "c2"}
\* The caller that runs EbayInventoryAPI._make_request.
Client == "c1"
Costs == (1..MaxCost) \cup {burst + 1}
Timeouts == {MaxTimeout}
\* Logical endpoints the public operations pass to _make_request.
Endpoints == {"inventory_item", "offer"}
\* response.status_code of the remote, one per branch of _make_request.
Statuses == {200, 204, 401, 429, 500}
\* Status codes given to record_request directly: inside `200 <= status <
\* 300`, just past its upper bound, and an error.
TrackerStatuses == {200, 201, 300, 500}
\* What refresh_access_token meets: the token endpoint answers 200 and the
\* new tokens are stored, it answers another status, the POST fails, or the
\* store cannot be written.
RefreshResults == {"stored", "rejected", "unreachable", "unsaved"}

Min(a, b) == IF a <= b THEN a ELSE b
Max(a, b) == IF a >= b THEN a ELSE b

VARIABLES
    now,          \* the clock, in ticks
    tokens,       \* RateLimiter.tokens, in units of 1/Unit token
    last_update,  \* RateLimiter.last_update
    pc,           \* per caller: where it is inside acquire
    cost,         \* per caller: acquire's `tokens` argument
    timeout,      \* per caller: acquire's `timeout` argument, in ticks
    start_time,   \* per caller: acquire's local start_time
    wake,         \* per caller: earliest tick time.sleep(0.1) returns
    drained,      \* per caller, history: the call's first pass ran in the
                  \*   tick the call began and found an empty bucket, and
                  \*   every later step of the call ran in the tick it was due
    excess,       \* history: max over windows ending now of (units deducted
                  \*   in the window) - (window length * calls_per_second)
    baseTok,      \* history: the balance left by the latest deduction
    baseTime,     \* history: the tick of the latest deduction
    requests,     \* RequestTracker.requests: <<timestamp, endpoint, status>>
    tokenStore,   \* SecureStorage's "ebay" entry: "none", "valid",
                  \*   "expired", "blank"
    cpc,          \* the client call: where it is inside _make_request
    endpoint,     \* the client call: its endpoint argument
    outcome,      \* the client call: what it returned or raised
    firstStatus,  \* the client call: status of the first response, 0 if none
    retryStatus,  \* the client call: status of the retry's response, 0 if none
    attempts,     \* the client call, history: requests.request calls
    refreshes,    \* the client call, history: refresh_access_token calls
    fetches,      \* the client call, history: get_access_token calls
    recorded,     \* the client call, history: record_request calls
    lenBefore,    \* the client call, history: len(requests) when it began
    calls,        \* history: calls the client thread has begun
    refreshed,    \* the client call, history: how its refresh_access_token
                  \*   call ended: "none", "True", "EbayAuthError"
    stats,        \* what the latest get_stats() returned
    made,         \* history: every record appended by a direct record_request
    op,           \* history: the latest tracker operation: "none", "record",
                  \*   "stats", or "stats2" for a get_stats that follows a
                  \*   get_stats with no record and no time in between
    opTime,       \* history: the tick of the latest tracker operation
    limiter_lock, \* RateLimiter.lock: the thread inside `with self.lock:`,
                  \*   or "free"
    tracker_lock, \* RequestTracker.lock: likewise
    httpStatus,   \* the HTTP status the inventory route answered for the
                  \*   client call, 0 while it has not answered
    loggedOut,    \* history: "no", or how the latest logout() that
                  \*   returned True found the store, "deleted" (an entry
                  \*   was there) or "absent", no token exchange having
                  \*   stored tokens since
    sinceLogout,  \* the client call, history: loggedOut was not "no" when
                  \*   the call began
    authenticated,\* what the latest is_authenticated() returned: "none",
                  \*   "True", "False"
    access,       \* what the get_access_token() inside it returned: "none",
                  \*   "None", "" or "access_token"
    checkedStore  \* history: the token store as that call found it

limiterVars == <<now, tokens, last_update, pc, cost, timeout, start_time,
                 wake, drained, excess, baseTok, baseTime>>

clientVars == <<requests, tokenStore, cpc, endpoint, outcome, firstStatus,
                retryStatus, attempts, refreshes, fetches, recorded,
                lenBefore, calls, refreshed>>

trackerVars == <<stats, made, op, opTime>>

lockVars == <<limiter_lock, tracker_lock>>

routeVars == <<httpStatus, loggedOut, sinceLogout, authenticated, access,
               checkedStore>>

\* ------------------------------------------------------------ RateLimiter
\* _add_tokens: the balance after the refill computed at tick t.
add_tokens_uncapped(tok, last, t) == tok + (t - last) * calls_per_second
add_tokens_truncating(tok, last, t) ==
    Min(burst * Unit, tok + (((t - last) * calls_per_second) \div Unit) * Unit)
add_tokens(tok, last, t) ==
    Min(burst * Unit, tok + (t - last) * calls_per_second)

\* `self.last_update = now`
refill_time_stale(t, last) == last
refill_time(t, last) == t

\* `if self.tokens >= tokens`
enough_always(tok, c) == TRUE
enough_clamped(tok, c) == tok >= Min(c, burst) * Unit
enough(tok, c) == tok >= c * Unit

\* `self.tokens -= tokens`
deduct_free(tok, c) == tok
deduct(tok, c) == tok - c * Unit

\* `if time.time() - start_time >= timeout`
timed_out(t, st, to) == t - st >= to

\* The balance a refill at the current tick would leave.
Available == add_tokens(tokens, last_update, now)

\* The tick at which caller c's next step is due: the tick the call began
\* before the first sleep, the tick the sleep ends after it.
Due(c) == IF wake[c] = 0 THEN start_time[c] ELSE wake[c]

LimiterInit ==
    /\ now = 0
    /\ tokens = burst * Unit
    /\ last_update = 0
    /\ pc = [c \in Callers |-> "idle"]
    /\ cost = [c \in Callers |-> 1]
    /\ timeout = [c \in Callers |-> 0]
    /\ start_time = [c \in Callers |-> 0]
    /\ wake = [c \in Callers |-> 0]
    /\ drained = [c \in Callers |-> FALSE]
    /\ excess = 0
    /\ baseTok = burst * Unit
    /\ baseTime = 0

\* acquire(tokens=k, timeout=to) is entered: start_time = time.time().
AcquireEntry(c, k, to) ==
    /\ pc[c] \in {"idle", "ok", "fail"}
    /\ pc' = [pc EXCEPT ![c] = "poll"]
    /\ cost' = [cost EXCEPT ![c] = k]
    /\ timeout' = [timeout EXCEPT ![c] = to]
    /\ start_time' = [start_time EXCEPT ![c] = now]
    /\ wake' = [wake EXCEPT ![c] = 0]
    /\ drained' = [drained EXCEPT ![c] = FALSE]
    /\ UNCHANGED <<now, tokens, last_update, excess, baseTok, baseTime>>

\* A caller other than through the client enters acquire.
EnterAcquire(c, k, to) ==
    /\ AcquireEntry(c, k, to)
    /\ UNCHANGED <<clientVars, trackerVars, routeVars, lockVars>>

\* The body of `with self.lock:` in acquire, run by caller c: refill, then
\* deduct and return True when the balance covers the request.
PassBody(c) ==
    /\ pc[c] = "poll"
    /\ LET filled == add_tokens(tokens, last_update, now) IN
         /\ last_update' = refill_time(now, last_update)
         /\ IF enough(filled, cost[c])
              THEN /\ tokens' = deduct(filled, cost[c])
                   /\ pc' = [pc EXCEPT ![c] = "ok"]
                   /\ start_time' = [start_time EXCEPT ![c] = 0]
                   /\ wake' = [wake EXCEPT ![c] = 0]
                   /\ drained' = [drained EXCEPT ![c] =
                         drained[c] /\ now = Due(c)]
                   /\ excess' = excess + (filled - tokens')
                   /\ baseTok' = tokens'
                   /\ baseTime' = now
              ELSE /\ tokens' = filled
                   /\ pc' = [pc EXCEPT ![c] = "check"]
                   /\ drained' = [drained EXCEPT ![c] =
                         /\ now = Due(c)
                         /\ IF wake[c] = 0 THEN filled = 0 ELSE drained[c]]
                   /\ UNCHANGED <<start_time, wake, excess, baseTok, baseTime>>
    /\ UNCHANGED <<now, cost, timeout>>
    /\ UNCHANGED <<clientVars, trackerVars, routeVars>>

\* One pass through `with self.lock:` by caller c, taken as one step: the
\* lock is free before it and after it.
Pass(c) == PassBody(c) /\ UNCHANGED lockVars

\* The timeout check after a failed pass: return False, or go to sleep.
CheckTimeoutStep(c) ==
    /\ pc[c] = "check"
    /\ IF timed_out(now, start_time[c], timeout[c])
         THEN /\ pc' = [pc EXCEPT ![c] = "fail"]
              /\ start_time' = [start_time EXCEPT ![c] = 0]
              /\ wake' = [wake EXCEPT ![c] = 0]
              /\ drained' = drained
         ELSE /\ pc' = [pc EXCEPT ![c] = "sleep"]
              /\ start_time' = start_time
              /\ wake' = [wake EXCEPT ![c] = now + SleepTicks]
              /\ drained' = [drained EXCEPT ![c] = drained[c] /\ now = Due(c)]
    /\ UNCHANGED <<now, tokens, last_update, cost, timeout,
                   excess, baseTok, baseTime>>
    /\ UNCHANGED <<clientVars, trackerVars, routeVars, lockVars>>

\* time.sleep(0.1) returns, no earlier than 0.1 s after it was entered.
WakeStep(c) ==
    /\ pc[c] = "sleep"
    /\ now >= wake[c]
    /\ pc' = [pc EXCEPT ![c] = "poll"]
    /\ drained' = [drained EXCEPT ![c] = drained[c] /\ now = wake[c]]
    /\ UNCHANGED <<now, tokens, last_update, cost, timeout, start_time, wake,
                   excess, baseTok, baseTime>>
    /\ UNCHANGED <<clientVars, trackerVars, routeVars, lockVars>>

\* The clock advances by d ticks, no further than tick max.
Advance(d, max) ==
    /\ now + d <= max
    /\ now' = now + d
    /\ excess' = Max(0, excess - d * calls_per_second)
    /\ UNCHANGED <<tokens, last_update, pc, cost, timeout, start_time, wake,
                   drained, baseTok, baseTime>>
    /\ UNCHANGED <<clientVars, trackerVars, routeVars, lockVars>>

\* ------------------------------------------------------------ RequestTracker
\* `while self.requests and self.requests[0][0] < now - self.window_size:
\*      self.requests.popleft()`
RECURSIVE evict(_, _)
evict(reqs, t) ==
    IF reqs # <<>> /\ reqs[1][1] < t - window_size * TicksPerSecond
      THEN evict(Tail(reqs), t)
      ELSE reqs

\* record_request(endpoint, status_code) at tick t.
record_request_dropping(reqs, t, e, st) == evict(reqs, t)
record_request(reqs, t, e, st) == Append(evict(reqs, t), <<t, e, st>>)

\* The tracker's window in ticks.
Window == window_size * TicksPerSecond

\* round(n / d, 2) in hundredths, ties to the even hundredth.
round2(n, d) ==
    LET q == (100 * n) \div d
        r == (100 * n) % d
    IN  IF 2 * r > d THEN q + 1
        ELSE IF 2 * r = d THEN q + (q % 2)
        ELSE q

\* `sum(1 for _, _, status in self.requests if 200 <= status < 300)`
success_count_inclusive(reqs) ==
    Cardinality({i \in 1..Len(reqs) :
                     200 <= reqs[i][3] /\ reqs[i][3] <= 300})
success_count(reqs) ==
    Cardinality({i \in 1..Len(reqs) :
                     200 <= reqs[i][3] /\ reqs[i][3] < 300})

\* The requests-per-minute figure of get_stats at tick t, in hundredths:
\* `(total_requests / time_span * 60) if time_span > 0 else 0` for a
\* non-empty deque, 0 for an empty one, then `round(rpm, 2)`.
requests_per_minute_floored(reqs, t) ==
    IF reqs = <<>> THEN 0
    ELSE round2(Len(reqs) * 60 * TicksPerSecond, Max(1, t - reqs[1][1]))
requests_per_minute(reqs, t) ==
    IF reqs = <<>> THEN 0
    ELSE LET time_span == t - reqs[1][1] IN
           IF time_span > 0
             THEN round2(Len(reqs) * 60 * TicksPerSecond, time_span)
             ELSE 0

\* The dictionary get_stats() returns for the deque it has pruned.
stats_of(reqs, t) ==
    [total_requests |-> Len(reqs),
     success_count |-> success_count(reqs),
     error_count |-> Len(reqs) - success_count(reqs),
     requests_per_minute |-> requests_per_minute(reqs, t),
     window_size |-> window_size]

\* get_stats() at tick t: the deque it leaves and the dictionary it returns.
get_stats_unpruned(reqs, t) ==
    [requests |-> reqs, result |-> stats_of(evict(reqs, t), t)]
get_stats_clearing(reqs, t) ==
    [requests |-> <<>>, result |-> stats_of(evict(reqs, t), t)]
get_stats_counting_first(reqs, t) ==
    [requests |-> evict(reqs, t), result |-> stats_of(reqs, t)]
get_stats(reqs, t) ==
    [requests |-> evict(reqs, t), result |-> stats_of(evict(reqs, t), t)]

\* ------------------------------------------------------------ EbayAuth
\* The token store is the "ebay" entry of the encrypted storage file, which
\* every SecureStorage call loads anew: "none" (no entry), "valid" (an entry
\* with a non-empty access token, not yet expired), "expired" (an entry
\* whose expires_at has passed) and "blank" (an unexpired entry whose access
\* token is the empty string).  A 2xx answer to a client request has a body
\* that is empty or valid JSON.  Under ClientSpec the token endpoint is
\* taken to answer well-formed, a 200 from it carrying a non-empty access
\* token, so that no blank entry arises there.

\* SecureStorage.get_ebay_token: the stored entry, or None when there is
\* none or it has expired.
get_ebay_token(store) ==
    IF store \in {"valid", "blank"} THEN "token_data" ELSE "None"

\* The access_token field of the stored entry.
access_token(store) == IF store = "valid" THEN "access_token" ELSE ""

\* EbayAuth.refresh_access_token: the store it leaves and whether it
\* returned True (it raises EbayAuthError otherwise).  The token endpoint's
\* answer is stored as it came: "stored" for a 200 with an access token,
\* "blank" for a 200 whose access token is empty.
refresh_access_token(store, result) ==
    IF get_ebay_token(store) = "None"
      THEN [store |-> store, ok |-> FALSE]
      ELSE IF result = "stored"
             THEN [store |-> "valid", ok |-> TRUE]
             ELSE IF result = "blank"
                    THEN [store |-> "blank", ok |-> TRUE]
                    ELSE [store |-> store, ok |-> FALSE]

\* EbayAuth.get_access_token: the store it leaves and what it returns, the
\* stored access token or None.  It refreshes only when the entry it got
\* has an empty access token; an expired entry is not handed to it at all.
get_access_token(store, result) ==
    IF get_ebay_token(store) = "None"
      THEN [store |-> store, token |-> "None"]
      ELSE IF access_token(store) # ""
             THEN [store |-> store, token |-> access_token(store)]
             ELSE LET a == refresh_access_token(store, result) IN
                    IF a.ok
                      THEN [store |-> a.store,
                            token |-> IF get_ebay_token(a.store) = "None"
                                        THEN "None"
                                        ELSE access_token(a.store)]
                      ELSE [store |-> a.store, token |-> "None"]

\* EbayAuth.is_authenticated: `self.get_access_token() is not None`.
is_authenticated(token) == token # "None"

\* SecureStorage.delete_ebay_token through EbayAuth.logout: the store it
\* leaves and what it returns; saved is whether the storage file could be
\* written.  (The variant returns True without removing the entry.)
delete_ebay_token_kept(store, saved) == [store |-> store, ok |-> TRUE]
delete_ebay_token(store, saved) ==
    IF store = "none"
      THEN [store |-> store, ok |-> TRUE]
      ELSE IF saved
             THEN [store |-> "none", ok |-> TRUE]
             ELSE [store |-> store, ok |-> FALSE]

\* EbayAuth.exchange_code_for_token: the store it leaves and whether it
\* returned True (it raises EbayAuthError otherwise).
exchange_code_for_token(store, result) ==
    IF result = "stored" THEN [store |-> "valid", ok |-> TRUE]
    ELSE IF result = "blank" THEN [store |-> "blank", ok |-> TRUE]
    ELSE [store |-> store, ok |-> FALSE]

\* ------------------------------------------------------------ EbayInventoryAPI
Raise(e) == [next |-> "done", outcome |-> e]
Return(v) == [next |-> "done", outcome |-> v]
Goto(l) == [next |-> l, outcome |-> "none"]

\* `if not self.rate_limiter.acquire(): raise EbayRateLimitError(...)`
after_acquire_unchecked(ok) == Goto("headers")
after_acquire_negated(ok) ==
    IF ok THEN Raise("EbayRateLimitError") ELSE Goto("headers")
after_acquire(ok) ==
    IF ~ok THEN Raise("EbayRateLimitError") ELSE Goto("headers")

\* _get_headers: EbayAuthError when get_access_token returned None or an
\* empty token (`if not access_token`), else on to `then`.
get_headers_unchecked(token, then) == Goto(then)
get_headers(token, then) ==
    IF token \in {"None", ""}
      THEN Raise("EbayAuthError")
      ELSE Goto(then)

\* `return response.json() if response.text else {}`
parsed(text) == IF text THEN "body" ELSE "empty"

\* The branches on the first response's status (and a variant that sends
\* a 429 to the refresh as well).
first_response_retrying(st, text) ==
    IF st = 204 THEN Return("empty")
    ELSE IF 200 <= st /\ st < 300 THEN Return(parsed(text))
    ELSE IF st = 401 \/ st = 429 THEN Goto("refresh")
    ELSE Raise("EbayAPIError")
first_response_unclassified(st, text) ==
    IF st = 204 THEN Return("empty")
    ELSE IF 200 <= st /\ st < 300 THEN Return(parsed(text))
    ELSE IF st = 401 THEN Goto("refresh")
    ELSE Raise("EbayAPIError")
first_response(st, text) ==
    IF st = 204 THEN Return("empty")
    ELSE IF 200 <= st /\ st < 300 THEN Return(parsed(text))
    ELSE IF st = 401 THEN Goto("refresh")
    ELSE IF st = 429 THEN Raise("EbayRateLimitError")
    ELSE Raise("EbayAPIError")

\* The branches on the retry's status.
retry_response_exclusive(st, text) ==
    IF 200 < st /\ st < 300 THEN Return(parsed(text))
    ELSE Raise("EbayAuthError")
retry_response_again(st, text) ==
    IF 200 <= st /\ st < 300 THEN Return(parsed(text))
    ELSE IF st = 401 THEN Goto("refresh")
    ELSE Raise("EbayAuthError")
retry_response_classified(st, text) ==
    IF 200 <= st /\ st < 300 THEN Return(parsed(text))
    ELSE IF st = 401 THEN Raise("EbayAuthError")
    ELSE IF st = 429 THEN Raise("EbayRateLimitError")
    ELSE Raise("EbayAPIError")
retry_response(st, text) ==
    IF 200 <= st /\ st < 300 THEN Return(parsed(text))
    ELSE Raise("EbayAuthError")

\* `self.auth.refresh_access_token()` returned True, or raised the
\* EbayAuthError that `except (EbayAPIError, EbayAuthError, ...): raise`
\* passes on.
after_refresh_ignored(ok) == Goto("headers2")
after_refresh_reusing(ok) ==
    IF ok THEN Goto("retry") ELSE Raise("EbayAuthError")
after_refresh(ok) ==
    IF ok THEN Goto("headers2") ELSE Raise("EbayAuthError")

\* `except requests.RequestException: raise EbayAPIError("Request failed")`
request_failed == Raise("EbayAPIError")

ClientInit ==
    /\ requests = <<>>
    /\ cpc = "idle"
    /\ endpoint = "inventory_item"
    /\ outcome = "none"
    /\ firstStatus = 0
    /\ retryStatus = 0
    /\ attempts = 0
    /\ refreshes = 0
    /\ fetches = 0
    /\ recorded = 0
    /\ lenBefore = 0
    /\ calls = 0
    /\ refreshed = "none"

\* _make_request(method, endpoint) is called: it enters acquire().
MakeRequest(e) ==
    /\ cpc \in {"idle", "done"}
    /\ calls < MaxCalls
    /\ AcquireEntry(Client, 1, default_timeout * TicksPerSecond)
    /\ cpc' = "acquire"
    /\ endpoint' = e
    /\ outcome' = "none"
    /\ firstStatus' = 0
    /\ retryStatus' = 0
    /\ attempts' = 0
    /\ refreshes' = 0
    /\ fetches' = 0
    /\ recorded' = 0
    /\ lenBefore' = Len(requests)
    /\ calls' = calls + 1
    /\ refreshed' = "none"
    /\ httpStatus' = 0
    /\ sinceLogout' = (loggedOut # "no")
    /\ UNCHANGED <<requests, tokenStore>>
    /\ UNCHANGED <<loggedOut, authenticated, access, checkedStore>>
    /\ UNCHANGED <<trackerVars, lockVars>>

\* acquire() has returned.
AcquireReturns ==
    /\ cpc = "acquire"
    /\ pc[Client] \in {"ok", "fail"}
    /\ LET r == after_acquire(pc[Client] = "ok") IN
         /\ cpc' = r.next
         /\ outcome' = r.outcome
    /\ UNCHANGED <<requests, tokenStore, endpoint, firstStatus, retryStatus,
                   attempts, refreshes, fetches, recorded, lenBefore, calls,
                   refreshed>>
    /\ UNCHANGED <<limiterVars, trackerVars, routeVars, lockVars>>

\* `headers = self._get_headers()`, before the request and before the retry.
GetHeaders(result) ==
    /\ cpc \in {"headers", "headers2"}
    /\ fetches' = fetches + 1
    /\ LET a == get_access_token(tokenStore, result)
           r == get_headers(a.token,
                            IF cpc = "headers" THEN "send" ELSE "retry") IN
         /\ tokenStore' = a.store
         /\ cpc' = r.next
         /\ outcome' = r.outcome
    /\ UNCHANGED <<requests, endpoint, firstStatus, retryStatus,
                   attempts, refreshes, recorded, lenBefore, calls,
                   refreshed>>
    /\ UNCHANGED <<limiterVars, trackerVars, routeVars, lockVars>>

\* The first requests.request raises requests.RequestException.
SendFails ==
    /\ cpc = "send"
    /\ attempts' = attempts + 1
    /\ cpc' = request_failed.next
    /\ outcome' = request_failed.outcome
    /\ UNCHANGED <<requests, tokenStore, endpoint, firstStatus, retryStatus,
                   refreshes, fetches, recorded, lenBefore, calls,
                   refreshed>>
    /\ UNCHANGED <<limiterVars, trackerVars, routeVars, lockVars>>

\* The first requests.request returns a response: it is recorded, then
\* handled by its status.
SendAnswered(st, text) ==
    /\ cpc = "send"
    /\ attempts' = attempts + 1
    /\ firstStatus' = st
    /\ requests' = record_request(requests, now, endpoint, st)
    /\ recorded' = recorded + 1
    /\ LET r == first_response(st, text) IN
         /\ cpc' = r.next
         /\ outcome' = r.outcome
    /\ UNCHANGED <<tokenStore, endpoint, retryStatus, refreshes, fetches,
                   lenBefore, calls, refreshed>>
    /\ UNCHANGED <<limiterVars, trackerVars, routeVars, lockVars>>

\* `self.auth.refresh_access_token()` after a 401.
Refresh(result) ==
    /\ cpc = "refresh"
    /\ refreshes' = refreshes + 1
    /\ LET a == refresh_access_token(tokenStore, result)
           r == after_refresh(a.ok) IN
         /\ tokenStore' = a.store
         /\ refreshed' = IF a.ok THEN "True" ELSE "EbayAuthError"
         /\ cpc' = r.next
         /\ outcome' = r.outcome
    /\ UNCHANGED <<requests, endpoint, firstStatus, retryStatus, attempts,
                   fetches, recorded, lenBefore, calls>>
    /\ UNCHANGED <<limiterVars, trackerVars, routeVars, lockVars>>

\* The retried requests.request raises requests.RequestException.
RetryFails ==
    /\ cpc = "retry"
    /\ attempts' = attempts + 1
    /\ cpc' = request_failed.next
    /\ outcome' = request_failed.outcome
    /\ UNCHANGED <<requests, tokenStore, endpoint, firstStatus, retryStatus,
                   refreshes, fetches, recorded, lenBefore, calls,
                   refreshed>>
    /\ UNCHANGED <<limiterVars, trackerVars, routeVars, lockVars>>

\* The retried requests.request returns a response.
RetryAnswered(st, text) ==
    /\ cpc = "retry"
    /\ attempts' = attempts + 1
    /\ retryStatus' = st
    /\ LET r == retry_response(st, text) IN
         /\ cpc' = r.next
         /\ outcome' = r.outcome
    /\ UNCHANGED <<requests, tokenStore, endpoint, firstStatus, refreshes,
                   fetches, recorded, lenBefore, calls, refreshed>>
    /\ UNCHANGED <<limiterVars, trackerVars, routeVars, lockVars>>

\* The stored access token reaches its expires_at.
TokenExpires ==
    /\ tokenStore \in {"valid", "blank"}
    /\ tokenStore' = "expired"
    /\ UNCHANGED <<requests, cpc, endpoint, outcome, firstStatus, retryStatus,
                   attempts, refreshes, fetches, recorded, lenBefore, calls,
                   refreshed>>
    /\ UNCHANGED <<limiterVars, trackerVars, routeVars, lockVars>>

\* A pass through the limiter's lock by the acquire() of another thread's
\* client call: the refill, and the deduction of its one token if it is there.
OtherPass ==
    /\ LET filled == add_tokens(tokens, last_update, now) IN
         /\ last_update' = refill_time(now, last_update)
         /\ IF enough(filled, 1)
              THEN /\ tokens' = deduct(filled, 1)
                   /\ excess' = excess + (filled - tokens')
                   /\ baseTok' = tokens'
                   /\ baseTime' = now
              ELSE /\ tokens' = filled
                   /\ UNCHANGED <<excess, baseTok, baseTime>>
    /\ UNCHANGED <<now, pc, cost, timeout, start_time, wake, drained>>
    /\ UNCHANGED <<clientVars, trackerVars, routeVars, lockVars>>

\* ------------------------------------------------------------ the routes
\* What the token endpoint's answer can lead to: RefreshResults, and a 200
\* whose access token is empty.
TokenResults == RefreshResults \cup {"blank"}

\* The except clauses of get_ebay_items and get_ebay_item: EbayAuthError is
\* answered 401, EbayAPIError 400, any other exception 500; a result is
\* answered 200.  EbayRateLimitError is not an EbayAPIError.
route_status(oc) ==
    IF oc \in {"body", "empty"} THEN 200
    ELSE IF oc = "EbayAuthError" THEN 401
    ELSE IF oc = "EbayAPIError" THEN 400
    ELSE 500

\* A route handler runs to its end before the next one starts: the handlers
\* are coroutines of one event loop and do not await.
NoHandlerRuns == cpc = "idle" \/ (cpc = "done" /\ httpStatus # 0)

\* GET /inventory/items and /inventory/item/{sku} call the client, both on
\* the inventory_item endpoint.
GetItems ==
    /\ NoHandlerRuns
    /\ MakeRequest("inventory_item")

\* The inventory route answers with the client's result or with the
\* HTTPException its except clauses raise.
Responds ==
    /\ cpc = "done"
    /\ httpStatus = 0
    /\ httpStatus' = route_status(outcome)
    /\ UNCHANGED <<loggedOut, sinceLogout, authenticated, access,
                   checkedStore>>
    /\ UNCHANGED <<limiterVars, clientVars, trackerVars, lockVars>>

\* GET /auth-status: ebay_auth.is_authenticated().
AuthStatus(result) ==
    /\ NoHandlerRuns
    /\ LET a == get_access_token(tokenStore, result) IN
         /\ tokenStore' = a.store
         /\ access' = a.token
         /\ authenticated' = IF is_authenticated(a.token) THEN "True"
                                                          ELSE "False"
    /\ checkedStore' = tokenStore
    /\ UNCHANGED <<httpStatus, loggedOut, sinceLogout>>
    /\ UNCHANGED <<requests, cpc, endpoint, outcome, firstStatus, retryStatus,
                   attempts, refreshes, fetches, recorded, lenBefore, calls,
                   refreshed>>
    /\ UNCHANGED <<limiterVars, trackerVars, lockVars>>

\* POST /auth/login, once the authorization code has arrived:
\* ebay_auth.exchange_code_for_token(code).
Login(result) ==
    /\ NoHandlerRuns
    /\ LET a == exchange_code_for_token(tokenStore, result) IN
         /\ tokenStore' = a.store
         /\ loggedOut' = IF a.ok THEN "no" ELSE loggedOut
    /\ UNCHANGED <<httpStatus, sinceLogout, authenticated, access,
                   checkedStore>>
    /\ UNCHANGED <<requests, cpc, endpoint, outcome, firstStatus, retryStatus,
                   attempts, refreshes, fetches, recorded, lenBefore, calls,
                   refreshed>>
    /\ UNCHANGED <<limiterVars, trackerVars, lockVars>>

\* POST /auth/logout: ebay_auth.logout().
Logout(saved) ==
    /\ NoHandlerRuns
    /\ LET a == delete_ebay_token(tokenStore, saved) IN
         /\ tokenStore' = a.store
         /\ loggedOut' = IF ~a.ok THEN loggedOut
                         ELSE IF tokenStore = "none" THEN "absent"
                         ELSE "deleted"
    /\ UNCHANGED <<httpStatus, sinceLogout, authenticated, access,
                   checkedStore>>
    /\ UNCHANGED <<requests, cpc, endpoint, outcome, firstStatus, retryStatus,
                   attempts, refreshes, fetches, recorded, lenBefore, calls,
                   refreshed>>
    /\ UNCHANGED <<limiterVars, trackerVars, lockVars>>

\* ------------------------------------------------------------ tracker actions
TrackerInit ==
    /\ stats = stats_of(<<>>, 0)
    /\ made = <<>>
    /\ op = "none"
    /\ opTime = 0

\* The body of `with self.lock:` in record_request(endpoint, status_code).
RecordBody(e, st) ==
    /\ Len(made) < MaxRecords
    /\ requests' = record_request(requests, now, e, st)
    /\ made' = Append(made, <<now, e, st>>)
    /\ op' = "record"
    /\ opTime' = now
    /\ UNCHANGED stats
    /\ UNCHANGED <<tokenStore, cpc, endpoint, outcome, firstStatus,
                   retryStatus, attempts, refreshes, fetches, recorded,
                   lenBefore, calls, refreshed>>
    /\ UNCHANGED <<limiterVars, routeVars>>

\* The body of `with self.lock:` in get_stats().
StatsBody ==
    /\ LET g == get_stats(requests, now) IN
         /\ requests' = g.requests
         /\ stats' = g.result
    /\ op' = IF op \in {"stats", "stats2"} /\ opTime = now
               THEN "stats2" ELSE "stats"
    /\ opTime' = now
    /\ UNCHANGED made
    /\ UNCHANGED <<tokenStore, cpc, endpoint, outcome, firstStatus,
                   retryStatus, attempts, refreshes, fetches, recorded,
                   lenBefore, calls, refreshed>>
    /\ UNCHANGED <<limiterVars, routeVars>>

\* RequestTracker.record_request(endpoint, status_code), called directly and
\* taken as one step.
RecordRequest(e, st) == RecordBody(e, st) /\ UNCHANGED lockVars

\* RequestTracker.get_stats(), as EbayInventoryAPI.get_api_stats calls it,
\* taken as one step.
GetStats == StatsBody /\ UNCHANGED lockVars

\* ------------------------------------------------------------ the two locks
\* What a `with self.lock:` block leaves in the lock: it is released on
\* every way out of the block, the `return True` inside it included.
released_on_success(holder, returned) == IF returned THEN "free" ELSE holder
released(holder, returned) == "free"

\* A thread is inside acquire's poll loop.
InAcquire(c) == pc[c] \in {"poll", "check", "sleep"}

\* Thread c calls acquire, no later than tick MaxStart; it is not inside a
\* tracker method.
ThreadEnters(c, k, to) ==
    /\ now <= MaxStart
    /\ tracker_lock # c
    /\ EnterAcquire(c, k, to)

\* Thread c obtains the limiter's lock at the top of the poll loop.
LockLimiter(c) ==
    /\ pc[c] = "poll"
    /\ limiter_lock = "free"
    /\ limiter_lock' = c
    /\ UNCHANGED <<limiterVars, clientVars, trackerVars, routeVars,
                   tracker_lock>>

\* Thread c runs the locked block of acquire and leaves it.
LockedPass(c) ==
    /\ limiter_lock = c
    /\ PassBody(c)
    /\ limiter_lock' = released(c, pc'[c] = "ok")
    /\ UNCHANGED tracker_lock

\* Thread c, outside acquire, calls record_request or get_stats, no later
\* than tick MaxStart, and obtains the tracker's lock at the top of it.
LockTracker(c) ==
    /\ now <= MaxStart
    /\ ~InAcquire(c)
    /\ tracker_lock = "free"
    /\ tracker_lock' = c
    /\ UNCHANGED <<limiterVars, clientVars, trackerVars, routeVars,
                   limiter_lock>>

\* Thread c runs the locked block of record_request and leaves it.
LockedRecord(c, e, st) ==
    /\ tracker_lock = c
    /\ Len(made) < MaxLockedRecords
    /\ RecordBody(e, st)
    /\ tracker_lock' = released(c, TRUE)
    /\ UNCHANGED limiter_lock

\* Thread c runs the locked block of get_stats and leaves it.
LockedStats(c) ==
    /\ tracker_lock = c
    /\ StatsBody
    /\ tracker_lock' = released(c, TRUE)
    /\ UNCHANGED limiter_lock

\* Time passes: always up to MaxStart, and beyond it for as long as a thread
\* is inside time.sleep.
TimePasses ==
    Advance(1, IF \E c \in Callers : pc[c] = "sleep" /\ now < wake[c]
                 THEN now + 1 ELSE MaxStart)

\* ------------------------------------------------------------ the locked block
\* `with self.lock:` lets a thread in when no thread holds the lock.
may_enter_always(holder) == TRUE
may_enter(holder) == holder = "free"

\* A thread is inside the `with self.lock:` block of acquire.
InBlock(c) == pc[c] \in {"locked", "filled", "deduct"}

\* Thread c calls acquire(1) once, no later than tick MaxStart.
CallsOnce(c, to) ==
    /\ pc[c] = "idle"
    /\ ThreadEnters(c, 1, to)

\* Thread c enters the block at the top of the poll loop.
EnterBlock(c) ==
    /\ pc[c] = "poll"
    /\ may_enter(limiter_lock)
    /\ limiter_lock' = c
    /\ pc' = [pc EXCEPT ![c] = "locked"]
    /\ UNCHANGED <<now, tokens, last_update, cost, timeout, start_time, wake,
                   drained, excess, baseTok, baseTime>>
    /\ UNCHANGED <<clientVars, trackerVars, routeVars, tracker_lock>>

\* `self._add_tokens()` inside the block.
AddTokens(c) ==
    /\ pc[c] = "locked"
    /\ tokens' = add_tokens(tokens, last_update, now)
    /\ last_update' = refill_time(now, last_update)
    /\ pc' = [pc EXCEPT ![c] = "filled"]
    /\ UNCHANGED <<now, cost, timeout, start_time, wake, drained, excess,
                   baseTok, baseTime>>
    /\ UNCHANGED <<clientVars, trackerVars, routeVars, lockVars>>

\* `if self.tokens >= tokens:` inside the block; when the test fails the
\* thread leaves the block for the timeout check.
TestTokens(c) ==
    /\ pc[c] = "filled"
    /\ IF enough(tokens, cost[c])
         THEN /\ pc' = [pc EXCEPT ![c] = "deduct"]
              /\ UNCHANGED limiter_lock
         ELSE /\ pc' = [pc EXCEPT ![c] = "check"]
              /\ limiter_lock' = released(limiter_lock, FALSE)
    /\ UNCHANGED <<now, tokens, last_update, cost, timeout, start_time, wake,
                   drained, excess, baseTok, baseTime>>
    /\ UNCHANGED <<clientVars, trackerVars, routeVars, tracker_lock>>

\* `self.tokens -= tokens; return True`, which leaves the block.
DeductTokens(c) ==
    /\ pc[c] = "deduct"
    /\ tokens' = deduct(tokens, cost[c])
    /\ pc' = [pc EXCEPT ![c] = "ok"]
    /\ start_time' = [start_time EXCEPT ![c] = 0]
    /\ wake' = [wake EXCEPT ![c] = 0]
    /\ excess' = excess + (tokens - tokens')
    /\ baseTok' = tokens'
    /\ baseTime' = now
    /\ limiter_lock' = released(limiter_lock, TRUE)
    /\ UNCHANGED <<now, last_update, cost, timeout, drained>>
    /\ UNCHANGED <<clientVars, trackerVars, routeVars, tracker_lock>>

\* ------------------------------------------------------------ specifications
vars == <<limiterVars, clientVars, trackerVars, lockVars, routeVars>>

\* The limiter under direct, concurrent acquire calls.
LockInit == limiter_lock = "free" /\ tracker_lock = "free"

\* No route has been called yet.
RouteInit ==
    /\ httpStatus = 0
    /\ loggedOut = "no"
    /\ sinceLogout = FALSE
    /\ authenticated = "none"
    /\ access = "none"
    /\ checkedStore = "none"

Init ==
    /\ LimiterInit
    /\ ClientInit
    /\ TrackerInit
    /\ LockInit
    /\ RouteInit
    /\ tokenStore = "none"

Next ==
    \/ \E c \in Callers, k \in Costs, to \in Timeouts : EnterAcquire(c, k, to)
    \/ \E c \in Callers : Pass(c)
    \/ \E c \in Callers : CheckTimeoutStep(c)
    \/ \E c \in Callers : WakeStep(c)
    \/ Advance(1, MaxTime)

Spec == Init /\ [][Next]_vars

\* One thread's calls through the client, next to other threads' calls that
\* draw on the same limiter, from any state of the token store.  The clock
\* runs tick by tick through the first sleep of a blocked acquire, and can
\* jump by the whole of acquire's timeout.
ClientSpecInit ==
    /\ LimiterInit
    /\ ClientInit
    /\ TrackerInit
    /\ LockInit
    /\ RouteInit
    /\ tokenStore \in {"none", "valid", "expired"}

ClientNext ==
    \/ \E e \in Endpoints : MakeRequest(e)
    \/ Pass(Client)
    \/ CheckTimeoutStep(Client)
    \/ WakeStep(Client)
    \/ AcquireReturns
    \/ \E result \in RefreshResults : GetHeaders(result)
    \/ SendFails
    \/ \E st \in Statuses, text \in BOOLEAN : SendAnswered(st, text)
    \/ \E result \in RefreshResults : Refresh(result)
    \/ RetryFails
    \/ \E st \in Statuses, text \in BOOLEAN : RetryAnswered(st, text)
    \/ TokenExpires
    \/ OtherPass
    \/ Advance(1, SleepTicks)
    \/ Advance(default_timeout * TicksPerSecond,
               default_timeout * TicksPerSecond + SleepTicks)

ClientSpec == ClientSpecInit /\ [][ClientNext]_vars

\* The tracker under direct record_request and get_stats calls.  The clock
\* runs tick by tick for MaxSpan ticks and can jump by a whole window, so
\* that records fall on both sides of the window's edge.  The endpoint of a
\* record plays no part in the tracker, so one endpoint stands for all.
TrackerNext ==
    \/ \E st \in TrackerStatuses : RecordRequest("offer", st)
    \/ GetStats
    \/ Advance(1, (now \div Window) * Window + MaxSpan)
    \/ Advance(Window, MaxWindows * Window + MaxSpan)

TrackerSpec == Init /\ [][TrackerNext]_vars

\* Threads that call acquire for one token, as the client does, and the
\* tracker's methods, with the taking and the release of the two locks as
\* steps of their own.
LockNext ==
    \/ \E c \in Callers, to \in Timeouts : ThreadEnters(c, 1, to)
    \/ \E c \in Callers : LockLimiter(c)
    \/ \E c \in Callers : LockedPass(c)
    \/ \E c \in Callers : CheckTimeoutStep(c)
    \/ \E c \in Callers : WakeStep(c)
    \/ \E c \in Callers : LockTracker(c)
    \/ \E c \in Callers : LockedRecord(c, "offer", 200)
    \/ \E c \in Callers : LockedStats(c)
    \/ TimePasses

\* A thread that can take a step takes it, the clock goes on, and a thread
\* waiting for a lock that becomes free again and again obtains it: every
\* holder leaves its block after a bounded computation that does not wait.
LockFairness ==
    /\ \A c \in Callers :
          /\ SF_vars(LockLimiter(c))
          /\ WF_vars(LockedPass(c))
          /\ WF_vars(CheckTimeoutStep(c))
          /\ WF_vars(WakeStep(c))
          /\ WF_vars(LockedStats(c))
    /\ WF_vars(TimePasses)

LockSpec == Init /\ [][LockNext]_vars /\ LockFairness

\* Two threads that each call acquire(1) once, at the same instant, on a
\* bucket that earlier calls of that instant have left with one token; the
\* statements of the locked block are steps of their own.
BlockInit ==
    /\ now = 0
    /\ tokens = Unit
    /\ last_update = 0
    /\ pc = [c \in Callers |-> "idle"]
    /\ cost = [c \in Callers |-> 1]
    /\ timeout = [c \in Callers |-> 0]
    /\ start_time = [c \in Callers |-> 0]
    /\ wake = [c \in Callers |-> 0]
    /\ drained = [c \in Callers |-> FALSE]
    /\ excess = (burst - 1) * Unit
    /\ baseTok = Unit
    /\ baseTime = 0
    /\ ClientInit
    /\ TrackerInit
    /\ LockInit
    /\ RouteInit
    /\ tokenStore = "none"

BlockNext ==
    \/ \E c \in Callers, to \in 0..MaxTimeout : CallsOnce(c, to)
    \/ \E c \in Callers : EnterBlock(c)
    \/ \E c \in Callers : AddTokens(c)
    \/ \E c \in Callers : TestTokens(c)
    \/ \E c \in Callers : DeductTokens(c)
    \/ \E c \in Callers : CheckTimeoutStep(c)
    \/ \E c \in Callers : WakeStep(c)
    \/ TimePasses

BlockSpec == BlockInit /\ [][BlockNext]_vars

\* The route layer: one event loop runs the handlers one after another, and
\* only they use the client and the authenticator.  Earlier calls may have
\* left the bucket empty at the instant the model starts.
RouteSpecInit ==
    /\ now = 0
    /\ tokens \in {0, burst * Unit}
    /\ last_update = 0
    /\ pc = [c \in Callers |-> "idle"]
    /\ cost = [c \in Callers |-> 1]
    /\ timeout = [c \in Callers |-> 0]
    /\ start_time = [c \in Callers |-> 0]
    /\ wake = [c \in Callers |-> 0]
    /\ drained = [c \in Callers |-> FALSE]
    /\ excess = burst * Unit - tokens
    /\ baseTok = tokens
    /\ baseTime = 0
    /\ ClientInit
    /\ TrackerInit
    /\ LockInit
    /\ RouteInit
    /\ tokenStore \in {"none", "valid", "expired"}

RouteNext ==
    \/ GetItems
    \/ Pass(Client)
    \/ CheckTimeoutStep(Client)
    \/ WakeStep(Client)
    \/ AcquireReturns
    \/ \E result \in TokenResults : GetHeaders(result)
    \/ SendFails
    \/ \E st \in Statuses, text \in BOOLEAN : SendAnswered(st, text)
    \/ \E result \in TokenResults : Refresh(result)
    \/ RetryFails
    \/ \E st \in Statuses, text \in BOOLEAN : RetryAnswered(st, text)
    \/ Responds
    \/ \E result \in TokenResults : AuthStatus(result)
    \/ \E result \in TokenResults : Login(result)
    \/ \E saved \in BOOLEAN : Logout(saved)
    \/ TokenExpires
    \/ Advance(1, SleepTicks)
    \/ Advance(default_timeout * TicksPerSecond,
               default_timeout * TicksPerSecond + SleepTicks)

RouteSpec == RouteSpecInit /\ [][RouteNext]_vars

\* ------------------------------------------------------------ limiter claims

\* Caller c makes a step of acquire in this transition that is not a
\* successful pass: a failed pass, or the timeout check after it.
FailingStep(c) ==
    \/ pc[c] = "poll" /\ pc'[c] = "check"
    \/ pc[c] = "check" /\ pc'[c] \in {"sleep", "fail"}

\* Caller c's pass succeeds in this transition.
SuccessStep(c) == pc[c] = "poll" /\ pc'[c] = "ok"

\* C1: in every reachable state 0 <= available_tokens <= capacity; the
\* balance rises only in a refill (time has elapsed since last_update, and
\* the rise is at most elapsed * refill_rate) and falls only in a successful
\* acquire (by at most the cost of that acquire).
C1_BalanceWithinCapacity ==
    /\ [](tokens >= 0 /\ tokens <= burst * Unit)
    /\ [][/\ tokens' > tokens =>
               /\ now > last_update
               /\ last_update' = now
               /\ tokens' <= tokens + (now - last_update) * calls_per_second
          /\ tokens' < tokens =>
               \E c \in Callers :
                   SuccessStep(c) /\ tokens' >= tokens - cost[c] * Unit]_vars

\* A balance below capacity that a refill after elapsed time has raised and
\* from which a caller has just taken its tokens.
C1_Witness ==
    /\ \E c \in Callers : pc[c] = "ok"
    /\ last_update > 0
    /\ tokens > 0
    /\ tokens < burst * Unit - Unit

\* C2: over every time interval of length T the total cost of the acquire
\* calls that succeed inside it is at most capacity + T * refill_rate.
\* excess is the largest value, over all intervals that end at the current
\* tick, of (cost granted in the interval) - (its length * refill_rate), so
\* the claim is that excess never exceeds the capacity.
C2_RateBound == excess <= burst * Unit

\* An interval of positive length in which the grants reach the bound
\* exactly: the whole burst and all that was refilled since.
C2_Witness ==
    /\ excess = burst * Unit
    /\ now > 0
    /\ \E c \in Callers : pc[c] = "ok"

\* C7 (as stated): on a fresh limiter every acquire(1) made with no elapsed
\* time succeeds while a token is left, and the acquire(1) that follows them,
\* finding the bucket empty, with a timeout shorter than 1 / refill_rate,
\* does not succeed.
C7_EleventhTimesOut ==
    \A c \in Callers :
        /\ (now = 0 /\ cost[c] = 1 /\ pc[c] \in {"check", "sleep", "fail"})
               => tokens = 0
        /\ (drained[c] /\ cost[c] = 1
                /\ timeout[c] * calls_per_second < Unit)
               => pc[c] # "ok"

\* C8: a step of acquire that is not a successful pass takes nothing from
\* the bucket and leaves the balance available to any caller unchanged.
C8_FailedAcquireNoEffect ==
    [][\A c \in Callers :
          FailingStep(c) => (Available' = Available /\ tokens' >= tokens)]_vars

\* A call that timed out after polling a partly drained bucket over time.
C8_Witness ==
    \E c \in Callers :
        /\ pc[c] = "fail"
        /\ timeout[c] > 0
        /\ last_update > 0
        /\ tokens < burst * Unit

\* C9: an acquire whose cost exceeds the capacity never succeeds; it leaves
\* only by returning failure once its timeout has elapsed, and no step of it
\* reduces the balance.
C9_OverCapacityNeverSucceeds ==
    /\ [](\A c \in Callers : cost[c] > burst => pc[c] # "ok")
    /\ [][\A c \in Callers :
            (cost[c] > burst /\ pc[c] \in {"poll", "check", "sleep"}
                 /\ pc'[c] # pc[c])
               => /\ pc'[c] # "ok"
                  /\ tokens' >= tokens
                  /\ pc'[c] = "fail" => now - start_time[c] >= timeout[c]]_vars

\* An over-capacity call that polled a full bucket until its timeout.
C9_Witness ==
    \E c \in Callers :
        /\ cost[c] > burst
        /\ timeout[c] > 0
        /\ pc[c] = "fail"
        /\ tokens = burst * Unit
        /\ last_update >= timeout[c]

\* C10: t seconds after the latest deduction the balance is
\* min(capacity, balance_before + t * refill_rate), however many refills
\* were computed in between: both the stored balance, as of the latest
\* refill, and the balance the next refill would leave.
C10_RefillClosedForm ==
    /\ tokens = Min(burst * Unit,
                    baseTok + (last_update - baseTime) * calls_per_second)
    /\ Available = Min(burst * Unit,
                       baseTok + (now - baseTime) * calls_per_second)

\* A refill computed strictly between the latest deduction and now, with
\* the bucket still short of capacity.
C10_Witness ==
    /\ baseTime < last_update
    /\ last_update < now
    /\ baseTok < tokens
    /\ Available < burst * Unit
    /\ \E c \in Callers : pc[c] \in {"check", "sleep"}

\* ------------------------------------------------------------ client claims

\* The client call has ended after acquire() returned True.
DoneAdmitted == cpc = "done" /\ pc[Client] = "ok"

\* The client call has ended because acquire() returned False.
DoneLimited == cpc = "done" /\ pc[Client] = "fail"

\* C3: a call that gets 401 on its first request and 200 on the retry
\* returns the successful result after exactly two HTTP attempts and exactly
\* one refresh_access_token call.
C3_RetrySucceeds ==
    (cpc = "done" /\ firstStatus = 401 /\ retryStatus = 200)
        => /\ outcome \in {"body", "empty"}
           /\ attempts = 2
           /\ refreshes = 1

\* A call that ended with the parsed body of a 200 retry after a 401.
C3_Witness ==
    /\ cpc = "done"
    /\ firstStatus = 401
    /\ retryStatus = 200
    /\ outcome = "body"

\* C4: a call that gets 401 on its first request and 401 again on the retry
\* raises EbayAuthError after exactly two HTTP attempts and exactly one
\* refresh call; the call has ended, so nothing further is tried.
C4_SecondUnauthorizedRaises ==
    (firstStatus = 401 /\ retryStatus = 401)
        => /\ cpc = "done"
           /\ outcome = "EbayAuthError"
           /\ attempts = 2
           /\ refreshes = 1

\* A call that ended on the second 401.
C4_Witness ==
    /\ cpc = "done"
    /\ firstStatus = 401
    /\ retryStatus = 401
    /\ outcome = "EbayAuthError"
    /\ fetches = 2

\* C5: when acquire() times out the call raises EbayRateLimitError, the
\* tracker holds what it held before the call, and the call has neither
\* asked the authenticator for a credential or a refresh nor sent a request.
C5_LimiterTimeoutPropagates ==
    DoneLimited
        => /\ outcome = "EbayRateLimitError"
           /\ recorded = 0
           /\ Len(requests) = lenBefore
           /\ fetches = 0
           /\ refreshes = 0
           /\ attempts = 0

\* A call that ended on the limiter's timeout, the bucket having been
\* drained by other callers.
C5_Witness ==
    /\ DoneLimited
    /\ now >= default_timeout * TicksPerSecond
    /\ excess > 0

C17_AcquireThenCredentialThenSend ==
    /\ []((fetches > 0 \/ attempts > 0)
             => (pc[Client] = "ok" /\ cpc \notin {"idle", "acquire"}))
    /\ [](attempts <= fetches)
    /\ [][(fetches' > fetches \/ attempts' > attempts)
             => (pc[Client] = "ok" /\ cpc \notin {"idle", "acquire"})]_vars
    /\ [][attempts' > attempts => fetches > attempts]_vars

\* A call that was admitted by the limiter after time had passed, fetched
\* the credential once and sent one request.
C17_Witness ==
    /\ DoneAdmitted
    /\ now > 0
    /\ fetches = 1
    /\ attempts = 1
    /\ firstStatus = 204

C19_FailedRefreshRaises ==
    refreshed = "EbayAuthError"
        => /\ cpc = "done"
           /\ outcome = "EbayAuthError"
           /\ firstStatus = 401
           /\ attempts = 1
           /\ fetches = 1
           /\ retryStatus = 0

\* A call whose refresh failed because the stored entry had expired by the
\* time of the refresh.
C19_Witness ==
    /\ refreshed = "EbayAuthError"
    /\ tokenStore = "expired"
    /\ cpc = "done"
    /\ attempts = 1

\* C20: when get_access_token reports no credential to _get_headers, the
\* call ends there with EbayAuthError and sends no request after it; a call
\* that ends this way at its first credential fetch has sent no HTTP request
\* at all.
C20_NoCredentialRaises ==
    /\ [][(cpc \in {"headers", "headers2"} /\ cpc' # cpc
              /\ \A result \in RefreshResults :
                    get_access_token(tokenStore, result).token = "None")
            => /\ cpc' = "done"
               /\ outcome' = "EbayAuthError"
               /\ attempts' = attempts]_vars
    /\ []((DoneAdmitted /\ fetches = 1 /\ attempts = 0)
            => (outcome = "EbayAuthError" /\ recorded = 0 /\ refreshes = 0))
    /\ []((DoneAdmitted /\ outcome = "EbayAuthError" /\ refreshes = 0)
            => attempts = 0)

\* A call that ended at its first credential fetch on an expired entry.
C20_Witness ==
    /\ DoneAdmitted
    /\ tokenStore = "expired"
    /\ outcome = "EbayAuthError"
    /\ fetches = 1
    /\ attempts = 0

\* ------------------------------------------------------------ tracker claims

\* The records of recs whose timestamp is within the window of tick t.
InWindow(recs, t) == SelectSeq(recs, LAMBDA r : r[1] >= t - Window)

\* The records of recs with a status in [200, 300).
Successes(recs) == SelectSeq(recs, LAMBDA r : r[3] \in 200..299)

\* A get_stats call is the latest tracker operation.
AfterStats == op \in {"stats", "stats2"}

\* This transition is a get_stats call (or leaves every variable as it is).
StatsStep == AfterStats' /\ now' = now

\* C12: after a record_request or get_stats call at tick opTime the deque
\* holds exactly the records made so far whose timestamp is within
\* window_size of that tick, in the order they were made, which is
\* non-decreasing in the timestamp; after get_stats, total_requests is
\* their number.
C12_WindowRetained ==
    op # "none"
        => /\ requests = InWindow(made, opTime)
           /\ \A i \in 1..Len(requests) : \A j \in i..Len(requests) :
                  requests[i][1] <= requests[j][1]
           /\ AfterStats
                 => stats.total_requests = Len(InWindow(made, opTime))

\* A get_stats call that found one record just past the window, which it
\* dropped, and one exactly window_size old, which it kept.
C12_Witness ==
    /\ op = "stats"
    /\ Len(made) = 3
    /\ made[1][1] < opTime - Window
    /\ made[2][1] = opTime - Window
    /\ stats.total_requests = 2
    /\ requests[1] = made[2]

\* C13: get_stats reports as success_count the number of retained records
\* with a status in [200, 300), as error_count total_requests minus
\* success_count, and as total_requests the number of retained records;
\* records with statuses 200, 201, 404, 500, 200 give 3, 2 and 5.
C13_StatsCounts ==
    /\ AfterStats
          => /\ stats.total_requests = Len(requests)
             /\ stats.success_count = Len(Successes(requests))
             /\ stats.error_count = stats.total_requests - stats.success_count
    /\ LET five == <<<<now, "offer", 200>>, <<now, "offer", 201>>,
                     <<now, "offer", 404>>, <<now, "offer", 500>>,
                     <<now, "offer", 200>>>>
           d == get_stats(five, now).result
       IN  /\ d.success_count = 3
           /\ d.error_count = 2
           /\ d.total_requests = 5

\* A get_stats call over a success, a 300 and a server error.
C13_Witness ==
    /\ op = "stats"
    /\ stats.total_requests = 3
    /\ stats.success_count = 1
    /\ stats.error_count = 2
    /\ \E i \in 1..3 : requests[i][3] = 300

\* C14 (as stated): get_stats reports requests_per_minute as
\* total / max(span, epsilon) * 60 (to two decimals, here in hundredths),
\* span being the time from the oldest retained record to the call, and as
\* 0 for an empty tracker; so with a retained record of span 0 it does not
\* report 0.
C14_RequestsPerMinute ==
    AfterStats
        => IF requests = <<>>
             THEN stats.requests_per_minute = 0
             ELSE LET span == opTime - requests[1][1] IN
                    IF span > 0
                      THEN stats.requests_per_minute =
                              round2(Len(requests) * 60 * TicksPerSecond, span)
                      ELSE stats.requests_per_minute > 0

\* C15: a get_stats call that follows a get_stats call with no record and
\* no time in between returns what that call returned.
C15_StatsIdempotent == [][op' = "stats2" => stats' = stats]_vars

\* A second get_stats in a row, over a tracker from which the first had
\* dropped a stale record and kept another.
C15_Witness ==
    /\ op = "stats2"
    /\ Len(made) = 2
    /\ made[2][1] < Window
    /\ Len(requests) = 1
    /\ stats.requests_per_minute > 0

\* C16 (as stated): a get_stats call leaves the limiter's state and the
\* tracker's stored record sequence unchanged.
C16_StatsNoSideEffect ==
    [][StatsStep => /\ requests' = requests
                    /\ tokens' = tokens
                    /\ last_update' = last_update]_vars

\* C16 (amended): a get_stats call leaves the limiter's state unchanged and
\* removes from the stored sequence exactly the records older than
\* window_size at the time of the call; the records within the window stay,
\* in their order, and none is added.
C16_StatsOnlyPrunes ==
    [][StatsStep => /\ requests' = InWindow(requests, now)
                    /\ tokens' = tokens
                    /\ last_update' = last_update]_vars

\* A get_stats call that dropped one of two records, neither of which a
\* record_request can have dropped.
C16_Witness ==
    /\ op = "stats"
    /\ Len(made) = 2
    /\ made[2][1] < Window
    /\ Len(requests) = 1
    /\ requests[1] = made[2]

\* ------------------------------------------------------------ lock claims

\* Thread c is inside acquire or inside a tracker method.
Busy(c) == InAcquire(c) \/ tracker_lock = c

DoneOnFirst == cpc = "done" /\ firstStatus \notin {0, 401}

\* C21: for a first response other than 401 the outcome of the call is
\* fixed by that response's status alone: 204 gives the empty body, any
\* other 2xx the parsed body (empty when the response has no text), 429
\* raises EbayRateLimitError, and every other status raises EbayAPIError;
\* the call made that one request and the response is in the tracker once,
\* under the call's endpoint and with its status.
C21_OutcomeByFirstStatus ==
    DoneOnFirst
        => /\ firstStatus = 204 => outcome = "empty"
           /\ (200 <= firstStatus /\ firstStatus < 300 /\ firstStatus # 204)
                 => outcome \in {"body", "empty"}
           /\ firstStatus = 429 => outcome = "EbayRateLimitError"
           /\ (firstStatus # 429 /\ (firstStatus < 200 \/ firstStatus >= 300))
                 => outcome = "EbayAPIError"
           /\ attempts = 1
           /\ refreshes = 0
           /\ recorded = 1
           /\ Len(requests) = lenBefore + 1
           /\ requests[Len(requests)][2] = endpoint
           /\ requests[Len(requests)][3] = firstStatus

\* A call that ended with EbayRateLimitError on a 429 answer, after the
\* limiter had admitted it, the 429 being the tracker's newest record.
C21_Witness ==
    /\ DoneOnFirst
    /\ pc[Client] = "ok"
    /\ firstStatus = 429
    /\ outcome = "EbayRateLimitError"
    /\ requests[Len(requests)][3] = 429

\* The client call has ended on a request that got no response.
DoneOnNetworkFailure ==
    /\ cpc = "done"
    /\ \/ attempts = 1 /\ firstStatus = 0
       \/ attempts = 2 /\ retryStatus = 0

\* C22: a call whose request failed at network level ends with an outcome of
\* its own, which is not the EbayAPIError that an error status produces.
C22_TransportErrorDistinct ==
    DoneOnNetworkFailure
        => outcome # "EbayAPIError"

\* HTTP responses the call has received so far.
responses ==
    (IF firstStatus # 0 THEN 1 ELSE 0) + (IF retryStatus # 0 THEN 1 ELSE 0)

\* C25: the records a call has added to the tracker are as many as the HTTP
\* responses it has received, the response to the retry after a 401 included.
C25_EveryResponseRecorded ==
    /\ recorded = responses
    /\ Len(requests) = lenBefore + responses

\* C26: the client holds no credential between requests.  The first request
\* of a call is sent only after a credential fetch made in that call, and
\* the retry only after a second fetch, which itself is made only after
\* refresh_access_token has returned True; each fetch goes to the token
\* store as it is at that moment.
C26_CredentialFetchedPerRequest ==
    /\ [][(attempts' > attempts /\ attempts = 0)
             => (fetches = 1 /\ cpc = "send")]_vars
    /\ [][(attempts' > attempts /\ attempts = 1)
             => (fetches = 2 /\ cpc = "retry" /\ refreshed = "True")]_vars
    /\ [][(fetches' > fetches /\ fetches = 1)
             => (refreshes = 1 /\ refreshed = "True" /\ attempts = 1)]_vars
    /\ [][fetches' > fetches
             => \E result \in RefreshResults :
                  cpc' = get_headers(get_access_token(tokenStore, result).token,
                                     IF cpc = "headers" THEN "send"
                                                        ELSE "retry").next]_vars

\* A call whose retry was answered 200 after the refresh had stored a new
\* token and the credential had been fetched a second time.
C26_Witness ==
    /\ cpc = "done"
    /\ attempts = 2
    /\ fetches = 2
    /\ refreshed = "True"
    /\ tokenStore = "valid"
    /\ retryStatus = 200

\* The client's acquire() takes its token in this step.
ClientAdmitted == cpc = "acquire" /\ pc[Client] = "poll" /\ pc'[Client] = "ok"

\* The client call takes a step after acquire() has returned True.
StepAfterAdmission == pc[Client] = "ok" /\ cpc # "done" /\ cpc' # cpc

\* C28: a client call that the limiter admits takes exactly one token,
\* before its first credential fetch and its first request; no later step
\* of the call, the retry included, takes or returns a token or enters
\* acquire again, whatever way the call ends; so a call can send two
\* requests on one token.
C28_OneTokenPerCall ==
    /\ [][ClientAdmitted
             => /\ tokens' = add_tokens(tokens, last_update, now) - Unit
                /\ fetches = 0
                /\ attempts = 0]_vars
    /\ [][StepAfterAdmission
             => /\ tokens' = tokens
                /\ last_update' = last_update
                /\ pc'[Client] = "ok"]_vars
    /\ [](attempts > 0 => pc[Client] = "ok")
    /\ [](attempts <= 2)

\* A call that sent two requests and failed, the bucket being one token
\* short of full: the call's token was taken and not returned.
C28_Witness ==
    /\ cpc = "done"
    /\ attempts = 2
    /\ outcome = "EbayAuthError"
    /\ now = 0
    /\ tokens = (burst - 1) * Unit

\* The client call has ended on a response to its retry.
DoneOnRetry == cpc = "done" /\ firstStatus = 401 /\ retryStatus # 0

\* C29: once the first request was answered 401 and the refresh succeeded,
\* the retry's status decides: 2xx returns the parsed body, and every other
\* status, 429 and 5xx included, raises EbayAuthError, never the
\* EbayRateLimitError or EbayAPIError that the same status raises on a first
\* response.
C29_RetryFailureIsAuthError ==
    DoneOnRetry
        => /\ refreshed = "True"
           /\ attempts = 2
           /\ IF 200 <= retryStatus /\ retryStatus < 300
                THEN outcome \in {"body", "empty"}
                ELSE outcome = "EbayAuthError"

\* A call that ended with EbayAuthError on a 429 answer to its retry.
C29_Witness ==
    /\ DoneOnRetry
    /\ retryStatus = 429
    /\ outcome = "EbayAuthError"
    /\ refreshes = 1

\* ------------------------------------------------------------ claims about
\* the locked block of acquire

\* The callers whose acquire(1) has returned True.
Granted == {c \in Callers : pc[c] = "ok"}

\* C24: the test and the deduction of acquire are one atomic step across
\* callers.  At most one thread is inside the locked block; the balance
\* never goes below zero; the tokens granted and the tokens left add up to
\* the one token the bucket held plus what has been refilled, so no token is
\* granted twice; of two callers that have both made their first pass with
\* no time elapsed exactly one has succeeded, and the other succeeds only
\* once a whole token has been refilled.
C24_AtomicCheckAndDeduct ==
    /\ Cardinality({c \in Callers : InBlock(c)}) <= 1
    /\ tokens >= 0
    /\ \A c \in Callers : pc[c] = "deduct" => tokens >= cost[c] * Unit
    /\ Cardinality(Granted) * Unit + tokens
          = Unit + last_update * calls_per_second
    /\ (now = 0
          /\ \A c \in Callers : pc[c] \in {"ok", "check", "sleep", "fail"})
          => Cardinality(Granted) = 1
    /\ Cardinality(Granted) > 1 => now * calls_per_second >= Unit

\* Both callers made their first pass at the same instant: one took the
\* token, the other found the bucket empty, slept until a whole token had
\* been refilled and then took that one.
C24_Witness ==
    /\ Cardinality(Granted) = 2
    /\ baseTime * calls_per_second = Unit
    /\ tokens = 0

\* ------------------------------------------------------------ claims about
\* the authenticator and the routes

\* C23: a get_access_token call that finds the stored access token expired
\* refreshes it and returns a token instead of None.
C23_RefreshOnExpiry == checkedStore = "expired" => access = "access_token"

\* C27: the inventory routes answer EbayAuthError with 401,
\* EbayRateLimitError with 429 or 400, and EbayAPIError with 400 or 500.
C27_RouteStatusByErrorKind ==
    httpStatus # 0
        => /\ outcome = "EbayAuthError" => httpStatus = 401
           /\ outcome = "EbayRateLimitError" => httpStatus \in {429, 400}
           /\ outcome = "EbayAPIError" => httpStatus \in {400, 500}

\* logout() has returned True and no token exchange has stored tokens since.
LoggedOut == loggedOut # "no"

\* is_authenticated() would return False now, whatever the token endpoint
\* answered; the route's and the client's EbayAuth both read tokenStore.
NotAuthenticated ==
    \A result \in TokenResults :
        ~is_authenticated(get_access_token(tokenStore, result).token)

\* An is_authenticated() call made while logged out returns False.
LoggedOutStatusIsFalse ==
    [][(LoggedOut /\ LoggedOut'
          /\ <<authenticated, access, checkedStore>>'
                # <<authenticated, access, checkedStore>>)
         => (authenticated' = "False" /\ access' = "None")]_vars

\* C30 (as stated): from a successful logout() until a token exchange
\* stores tokens, is_authenticated() is false and every client call begun
\* in that time raises EbayAuthError without having sent an HTTP request.
C30_LoggedOutCallsRaiseAuthError ==
    /\ [](LoggedOut => NotAuthenticated)
    /\ LoggedOutStatusIsFalse
    /\ [](sinceLogout => (attempts = 0 /\ refreshes = 0))
    /\ []((sinceLogout /\ cpc = "done") => outcome = "EbayAuthError")

\* C30 (amended): from a successful logout() until a token exchange stores
\* tokens, is_authenticated() is false, and a client call begun in that
\* time sends no HTTP request and makes no refresh; it raises EbayAuthError
\* at its first credential fetch when the limiter admits it, and
\* EbayRateLimitError when its acquire() times out.  The route's
\* authenticator and the client's are two objects over the one token store.
C30_LoggedOutCallsSendNothing ==
    /\ [](LoggedOut => (tokenStore = "none" /\ NotAuthenticated))
    /\ LoggedOutStatusIsFalse
    /\ [](sinceLogout => (attempts = 0 /\ refreshes = 0 /\ recorded = 0))
    /\ []((sinceLogout /\ cpc = "done")
            => IF pc[Client] = "ok"
                 THEN outcome = "EbayAuthError" /\ fetches = 1
                 ELSE outcome = "EbayRateLimitError" /\ fetches = 0)
    /\ []((sinceLogout /\ httpStatus # 0) => httpStatus \in {401, 500})

\* After a logout that removed a stored entry, the status route has
\* reported False and a client call has been answered 401 without a request.
C30_Witness ==
    /\ loggedOut = "deleted"
    /\ authenticated = "False"
    /\ checkedStore = "none"
    /\ sinceLogout
    /\ cpc = "done"
    /\ outcome = "EbayAuthError"
    /\ attempts = 0
    /\ httpStatus = 401

=============================================================================
